---- MODULE Spec2Model ----
(***************************************************************************)
(* Model of textual_datepicker/_date_select.py: the DateSelect widget, its *)
(* DatePickerDialog and the DatePickerDialogScreen that hosts the dialog.  *)
(* The Textual app is modelled by the state the handlers read and write:   *)
(* terminal size, screen stack, installed screen, per-screen focus and the *)
(* message queues of the dialog and of the DateSelect widgets.             *)
(***************************************************************************)
EXTENDS Integers, Sequences, FiniteSets, TLC

\* ---------------------------------------------------------------- bounds
NumSelects == 2      \* DateSelect widgets the application creates
MaxDay == 2          \* day labels modelled per month
SizeSpread == 1      \* terminal sizes differ from the dialog's size by SizeSpread
MaxWidth == 6        \* content widths tried by render

\* ------------------------------------------------------- program constants
DialogW == 30        \* DatePickerDialog.size[0]
DialogH == 17        \* DatePickerDialog.size[1]

Selects == 1..NumSelects
NoDialog == 0        \* None where a dialog (or its screen, or a widget) is expected
MainScreen == 0      \* the application's default screen, bottom of the stack

\* ------------------------------------------------------------------ dates
\* pendulum dates reduced to (year, month, day); NoDate stands for None.
NoDate == [year |-> 0, month |-> 0, day |-> 0]
Months == {1, 2}
DaysIn(m) == IF m = 1 THEN MaxDay ELSE MaxDay - 1
Dates == {dt \in [year : {2024}, month : Months, day : 1..MaxDay] : dt.day <= DaysIn(dt.month)}
Today == [year |-> 2024, month |-> 1, day |-> 2]
\* the application constructs DateSelect 1 without a date, the others with one
CtorDate(w) == IF w = 1 THEN NoDate ELSE [year |-> 2024, month |-> 2, day |-> 1]

\* terminal sizes: smaller than the dialog, exactly the dialog, larger
Sizes == {<<DialogW + k * SizeSpread, DialogH + k * SizeSpread>> : k \in {0 - 1, 0, 1}}
Keys == {"enter", "tab"}

VARIABLES
    appSize,      \* App.size, the terminal size (W, H)
    stack,        \* App._screen_stack, MainScreen at the bottom
    installed,    \* dialog hosted by the screen installed as "date_picker_dialog_screen"
    appError,     \* "none", or the exception that escaped a handler and stopped the app
    date,         \* DateSelect.date
    selDialog,    \* DateSelect.dialog (NoDialog = None); a dialog is named after its creator
    mounted,      \* DateSelect.on_mount has run
    focusMain,    \* focused DateSelect on the main screen (0 = none)
    dlgTarget,    \* DatePickerDialog.target
    dlgDisplay,   \* DatePickerDialog.display
    dlgOffset,    \* DatePickerDialog.offset
    pickerTarget, \* DatePickerDialog.date_picker.target (0 = not composed / None)
    pickerMonth,  \* month shown by the dialog's DatePicker (0 = not composed)
    pickerDate,   \* DatePickerDialog.date_picker.date
    scrDate,      \* DatePickerDialogScreen.date
    scrMounted,   \* DatePickerDialogScreen.on_mount has run
    focusDlg,     \* focused day label of the dialog screen (day number, 0 = none)
    dlgInbox,     \* DatePicker.Selected messages bubbling to the dialog
    selInbox,     \* DatePicker.Selected messages posted to the target DateSelect
    lastEvent,    \* the handler that ran last, with its arguments
    placeholder,  \* DateSelect.placeholder
    format,       \* DateSelect.format, a sequence of pendulum tokens
    contentWidth, \* DateSelect.content_size.width
    rendered      \* last result of DateSelect.render

appVars == <<appSize, stack, installed, appError>>
selVars == <<date, selDialog, mounted, focusMain>>
dlgVars == <<dlgTarget, dlgDisplay, dlgOffset, pickerTarget, pickerMonth, pickerDate>>
scrVars == <<scrDate, scrMounted, focusDlg>>
msgVars == <<dlgInbox, selInbox>>
renderVars == <<placeholder, format, contentWidth, rendered>>
vars == <<appVars, selVars, dlgVars, scrVars, msgVars, lastEvent, renderVars>>

Event(t, w, x, y, k) == [type |-> t, w |-> w, x |-> x, y |-> y, key |-> k]

Top(s) == s[Len(s)]
Front(s) == SubSeq(s, 1, Len(s) - 1)

\* ------------------------------------------------------- centering, hit test
\* faulty variant: the halving truncates toward zero instead of flooring
CenterOffsetTrunc(size) ==
    LET half(n) == IF n < 0 THEN 0 - ((0 - n) \div 2) ELSE n \div 2
    IN <<half(size[1] - DialogW), half(size[2] - DialogH)>>

\* (app.size[i] - dialog.size[i]) // 2 : Python floor division
CenterOffset(size) == <<(size[1] - DialogW) \div 2, (size[2] - DialogH) \div 2>>

\* faulty variant: the rectangle's right and bottom edges are taken as closed
ClickOutsideClosed(off, x, y) ==
    \/ ~(off[1] <= x /\ x <= off[1] + DialogW)
    \/ ~(off[2] <= y /\ y <= off[2] + DialogH)

\* the rectangle test of DatePickerDialogScreen.on_click
ClickOutside(off, x, y) ==
    \/ ~(off[1] <= x /\ x < off[1] + DialogW)
    \/ ~(off[2] <= y /\ y < off[2] + DialogH)

\* ------------------------------------------------------------- day labels
\* DayLabel.--day widgets of the month the picker shows, in document order;
\* the label of today's date carries the class --today.
DayLabels(m) == [i \in 1..DaysIn(m) |->
                    [day |-> i, today |-> (m = Today.month /\ i = Today.day)]]

\* for day in query("DayLabel.--day"): if day.day == date.day: focus; break
FirstMatchingDay(labels, d) ==
    LET hits == {i \in 1..Len(labels) : labels[i].day = d}
    IN IF hits = {} THEN 0
       ELSE labels[CHOOSE i \in hits : \A j \in hits : i <= j].day

\* faulty variant: NoMatches is swallowed without focusing the first day label
TodayOnly(labels) ==
    LET todays == {i \in 1..Len(labels) : labels[i].today}
    IN IF todays # {} THEN labels[CHOOSE i \in todays : \A j \in todays : i <= j].day
       ELSE 0

\* query_one("DayLabel.--today"), NoMatches caught: query("DayLabel.--day").first()
TodayOrFirst(labels) ==
    LET todays == {i \in 1..Len(labels) : labels[i].today}
    IN IF todays # {} THEN labels[CHOOSE i \in todays : \A j \in todays : i <= j].day
       ELSE labels[1].day

\* the label DatePickerDialogScreen.on_mount focuses (0 = none), given the
\* screen's date and the labels of the month the picker shows
MountFocus(sdate, labels) ==
    IF sdate # NoDate THEN FirstMatchingDay(labels, sdate.day)
    ELSE TodayOrFirst(labels)

\* ------------------------------------------------------------ Init
DefaultFormat == <<"YYYY", "-", "MM", "-", "DD">>

\* the state after construction, apart from the DateSelect constructor arguments
InitApp ==
    /\ appSize \in Sizes
    /\ stack = <<MainScreen>>
    /\ installed = NoDialog
    /\ appError = "none"
    /\ selDialog = [w \in Selects |-> NoDialog]
    /\ mounted = [w \in Selects |-> FALSE]
    /\ focusMain = 0
    /\ dlgTarget = [d \in Selects |-> 0]
    /\ dlgDisplay = [d \in Selects |-> TRUE]
    /\ dlgOffset = [d \in Selects |-> <<0, 0>>]
    /\ pickerTarget = [d \in Selects |-> 0]
    /\ pickerMonth = [d \in Selects |-> 0]
    /\ pickerDate = [d \in Selects |-> NoDate]
    /\ scrDate = [d \in Selects |-> NoDate]
    /\ scrMounted = [d \in Selects |-> FALSE]
    /\ focusDlg = [d \in Selects |-> 0]
    /\ dlgInbox = [d \in Selects |-> <<>>]
    /\ selInbox = [w \in Selects |-> <<>>]
    /\ lastEvent = Event("init", 0, 0, 0, "")
    /\ rendered = <<>>

Init ==
    /\ InitApp
    /\ date = [w \in Selects |-> CtorDate(w)]
    /\ placeholder = [w \in Selects |-> <<>>]
    /\ format = [w \in Selects |-> DefaultFormat]
    /\ contentWidth = 0

\* ------------------------------------------------------------------ render
\* Strings are sequences of characters. chevron stands for U+25BC.
chevron == "V"
DigitChars == <<"0", "1", "2", "3", "4", "5", "6", "7", "8", "9">>

RECURSIVE Decimal(_)
Decimal(n) == IF n < 10 THEN <<DigitChars[n + 1]>>
              ELSE Decimal(n \div 10) \o <<DigitChars[(n % 10) + 1]>>

RECURSIVE ZeroPad(_, _)
ZeroPad(t, n) == IF Len(t) >= n THEN t ELSE ZeroPad(<<"0">> \o t, n)

\* pendulum's format tokens; any other token is copied literally
FormatToken(dt, tok) ==
    CASE tok = "YYYY" -> ZeroPad(Decimal(dt.year), 4)
      [] tok = "MM" -> ZeroPad(Decimal(dt.month), 2)
      [] tok = "DD" -> ZeroPad(Decimal(dt.day), 2)
      [] tok = "M" -> Decimal(dt.month)
      [] tok = "D" -> Decimal(dt.day)
      [] OTHER -> <<tok>>

\* self.date.format(self.format)
RECURSIVE FormatDate(_, _)
FormatDate(dt, fmt) ==
    IF fmt = <<>> THEN <<>> ELSE FormatToken(dt, Head(fmt)) \o FormatDate(dt, Tail(fmt))

\* faulty variant: the text is not cut to the available space
TruncateNever(text, n) == text

\* if len(text) > text_space: text = text[0:text_space]
Truncate(text, n) == IF Len(text) > n THEN SubSeq(text, 1, n) ELSE text

\* f"{text:{n}}": left-aligned, filled with spaces to width n, never cut
PadRight(text, n) ==
    IF Len(text) >= n THEN text ELSE text \o [i \in 1..(n - Len(text)) |-> " "]

\* DateSelect.render
Render(width, dt, ph, fmt) ==
    LET text_space == IF width - 2 < 0 THEN 0 ELSE width - 2
        text == IF dt = NoDate THEN ph ELSE FormatDate(dt, fmt)
    IN PadRight(Truncate(text, text_space), text_space) \o <<" ", chevron>>

Placeholders == {<<>>, <<"D", "a", "y">>, <<"P", "i", "c", "k", " ", "a", " ", "d", "a", "y">>}
Formats == {DefaultFormat, <<"D", "/", "M">>}

\* DateSelect 1 constructed with every choice of date, placeholder and format
\* and laid out with every content width
RenderInit ==
    /\ InitApp
    /\ date \in {f \in [Selects -> Dates \cup {NoDate}] : \A w \in Selects \ {1} : f[w] = CtorDate(w)}
    /\ placeholder \in {f \in [Selects -> Placeholders] : \A w \in Selects \ {1} : f[w] = <<>>}
    /\ format \in {f \in [Selects -> Formats] : \A w \in Selects \ {1} : f[w] = DefaultFormat}
    /\ contentWidth \in 0..MaxWidth

\* the framework asks a DateSelect to render itself
DateSelectRender(w) ==
    /\ rendered' = Render(contentWidth, date[w], placeholder[w], format[w])
    /\ lastEvent' = Event("select_render", w, 0, 0, "")
    /\ UNCHANGED <<appVars, selVars, dlgVars, scrVars, msgVars, placeholder, format,
                   contentWidth>>

RenderNext == \E w \in Selects : DateSelectRender(w)

RenderSpec == RenderInit /\ [][RenderNext]_vars

Running == appError = "none"

\* ------------------------------------------------------ DateSelect handlers
\* DateSelect.on_mount: create the dialog once, then install a screen under
\* the fixed name; App.install_screen raises ScreenError for a name in use.
SelectOnMount(w) ==
    /\ Running
    /\ ~mounted[w]
    /\ mounted' = [mounted EXCEPT ![w] = TRUE]
    /\ selDialog' = [selDialog EXCEPT ![w] = IF @ = NoDialog THEN w ELSE @]
    /\ dlgTarget' = IF selDialog[w] = NoDialog THEN [dlgTarget EXCEPT ![w] = w]
                    ELSE dlgTarget
    /\ IF installed # NoDialog
       THEN appError' = "ScreenError" /\ UNCHANGED installed
       ELSE installed' = selDialog'[w] /\ UNCHANGED appError
    /\ lastEvent' = Event("select_mount", w, 0, 0, "")
    /\ UNCHANGED <<appSize, stack, date, focusMain, dlgDisplay, dlgOffset,
                   pickerTarget, pickerMonth, pickerDate, scrVars, msgVars, renderVars>>

\* faulty variant: the screen is pushed without showing the dialog again
ShowDatePickerHidden(w) ==
    /\ UNCHANGED dlgDisplay
    /\ stack' = Append(stack, installed)

\* DateSelect._show_date_picker
ShowDatePicker(w) ==
    /\ dlgDisplay' = [dlgDisplay EXCEPT ![selDialog[w]] = TRUE]
    /\ stack' = Append(stack, installed)

\* the user moves focus to the widget (can_focus=True) with the keyboard
SelectFocus(w) ==
    /\ Running
    /\ mounted[w]
    /\ Top(stack) = MainScreen
    /\ focusMain # w
    /\ focusMain' = w
    /\ lastEvent' = Event("select_focus", w, 0, 0, "")
    /\ UNCHANGED <<appVars, date, selDialog, mounted, dlgVars, scrVars, msgVars, renderVars>>

\* DateSelect.on_key, delivered to the focused widget of the active screen
SelectOnKey(w, key) ==
    /\ Running
    /\ mounted[w]
    /\ Top(stack) = MainScreen
    /\ focusMain = w
    /\ IF key = "enter" THEN ShowDatePicker(w) ELSE UNCHANGED <<dlgDisplay, stack>>
    /\ lastEvent' = Event("select_key", w, 0, 0, key)
    /\ UNCHANGED <<appSize, installed, appError, selVars, dlgTarget, dlgOffset,
                   pickerTarget, pickerMonth, pickerDate, scrVars, msgVars, renderVars>>

\* DateSelect.on_click; the click also gives the widget the focus
SelectOnClick(w) ==
    /\ Running
    /\ mounted[w]
    /\ Top(stack) = MainScreen
    /\ focusMain' = w
    /\ ShowDatePicker(w)
    /\ lastEvent' = Event("select_click", w, 0, 0, "")
    /\ UNCHANGED <<appSize, installed, appError, date, selDialog, mounted, dlgTarget,
                   dlgOffset, pickerTarget, pickerMonth, pickerDate, scrVars, msgVars,
                   renderVars>>

\* faulty variant: the date is stored for every DateSelect, as a class attribute would be
AssignDateShared(dates, w, evdate) == [v \in DOMAIN dates |-> evdate]

\* self.date = event.date
AssignDate(dates, w, evdate) == [dates EXCEPT ![w] = evdate]

\* DateSelect.on_date_picker_selected
SelectOnSelected(w) ==
    /\ Running
    /\ selInbox[w] # <<>>
    /\ date' = AssignDate(date, w, Head(selInbox[w]))
    /\ selInbox' = [selInbox EXCEPT ![w] = Tail(@)]
    /\ lastEvent' = Event("select_selected", w, 0, 0, "")
    /\ UNCHANGED <<appVars, selDialog, mounted, focusMain, dlgVars, scrVars, dlgInbox,
                   renderVars>>

\* --------------------------------------------------------- framework calls
\* App.pop_screen: raises ScreenStackError when only one screen is left
PopScreen ==
    IF Len(stack) <= 1
    THEN appError' = "ScreenStackError" /\ UNCHANGED stack
    ELSE stack' = Front(stack) /\ UNCHANGED appError

\* ------------------------------------------------ DatePickerDialog handlers
\* DatePickerDialog.compose, run when the pushed screen is first mounted: the
\* DatePicker is created and inherits the dialog's target. The month m a new
\* DatePicker shows is decided by DatePicker and left open here.
DialogCompose(d, m) ==
    /\ Running
    /\ Top(stack) = d
    /\ pickerMonth[d] = 0
    /\ pickerTarget' = [pickerTarget EXCEPT ![d] = dlgTarget[d]]
    /\ pickerMonth' = [pickerMonth EXCEPT ![d] = m]
    /\ lastEvent' = Event("dialog_compose", d, 0, 0, "")
    /\ UNCHANGED <<appVars, selVars, dlgTarget, dlgDisplay, dlgOffset, pickerDate,
                   scrVars, msgVars, renderVars>>

\* DatePickerDialog.on_descendant_blur: the focus of the dialog screen moves
\* from a day label to another one (nf > 0) or to nothing (nf = 0).
DialogOnDescendantBlur(d, nf) ==
    /\ Running
    /\ Top(stack) = d
    /\ scrMounted[d]
    /\ dlgDisplay[d]
    /\ focusDlg[d] # 0
    /\ nf # focusDlg[d]
    /\ nf <= DaysIn(pickerMonth[d])
    /\ focusDlg' = [focusDlg EXCEPT ![d] = nf]
    /\ dlgDisplay' = IF nf = 0 THEN [dlgDisplay EXCEPT ![d] = FALSE] ELSE dlgDisplay
    /\ lastEvent' = Event("dialog_blur", d, nf, 0, "")
    /\ UNCHANGED <<appVars, selVars, dlgTarget, dlgOffset, pickerTarget, pickerMonth,
                   pickerDate, scrDate, scrMounted, msgVars, renderVars>>

\* DatePickerDialog.on_date_picker_selected
DialogOnSelected(d) ==
    /\ Running
    /\ dlgInbox[d] # <<>>
    /\ dlgInbox' = [dlgInbox EXCEPT ![d] = Tail(@)]
    /\ dlgDisplay' = [dlgDisplay EXCEPT ![d] = FALSE]
    /\ PopScreen
    /\ focusMain' = IF Len(stack) > 1 /\ dlgTarget[d] # 0 THEN dlgTarget[d] ELSE focusMain
    /\ lastEvent' = Event("dialog_selected", d, 0, 0, "")
    /\ UNCHANGED <<appSize, installed, date, selDialog, mounted, dlgTarget, dlgOffset,
                   pickerTarget, pickerMonth, pickerDate, scrVars, selInbox, renderVars>>

\* --------------------------------------------------------------- DatePicker
\* The user picks a day of the shown month: DatePicker posts Selected, which
\* bubbles to the dialog, and posts a second Selected to its target. The
\* picker is used again only once both messages have been handled.
PickerSelect(d, dt) ==
    /\ Running
    /\ Top(stack) = d
    /\ scrMounted[d]
    /\ dlgDisplay[d]
    /\ dt.month = pickerMonth[d]
    /\ dlgInbox[d] = <<>>
    /\ pickerTarget[d] # 0 => selInbox[pickerTarget[d]] = <<>>
    /\ dlgInbox' = [dlgInbox EXCEPT ![d] = Append(@, dt)]
    /\ selInbox' = IF pickerTarget[d] # 0
                   THEN [selInbox EXCEPT ![pickerTarget[d]] = Append(@, dt)]
                   ELSE selInbox
    /\ lastEvent' = Event("picker_select", d, 0, 0, "")
    /\ UNCHANGED <<appVars, selVars, dlgVars, scrVars, renderVars>>

\* ------------------------------------------ DatePickerDialogScreen handlers
\* The application sets the public attribute `date` of the installed screen
\* before the screen is mounted.
ScreenSetDate(d, dt) ==
    /\ Running
    /\ installed = d
    /\ ~scrMounted[d]
    /\ scrDate[d] = NoDate
    /\ scrDate' = [scrDate EXCEPT ![d] = dt]
    /\ lastEvent' = Event("screen_set_date", d, 0, 0, "")
    /\ UNCHANGED <<appVars, selVars, dlgVars, scrMounted, focusDlg, msgVars, renderVars>>

\* DatePickerDialogScreen.on_mount
ScreenOnMount(d) ==
    /\ Running
    /\ Top(stack) = d
    /\ pickerMonth[d] # 0
    /\ ~scrMounted[d]
    /\ scrMounted' = [scrMounted EXCEPT ![d] = TRUE]
    /\ dlgOffset' = [dlgOffset EXCEPT ![d] = CenterOffset(appSize)]
    /\ pickerDate' = IF scrDate[d] # NoDate THEN [pickerDate EXCEPT ![d] = scrDate[d]]
                     ELSE pickerDate
    /\ pickerMonth' = IF scrDate[d] # NoDate
                      THEN [pickerMonth EXCEPT ![d] = scrDate[d].month]
                      ELSE pickerMonth
    /\ focusDlg' = [focusDlg EXCEPT ![d] = MountFocus(scrDate[d], DayLabels(pickerMonth'[d]))]
    /\ lastEvent' = Event("screen_mount", d, 0, 0, "")
    /\ UNCHANGED <<appVars, selVars, dlgTarget, dlgDisplay, pickerTarget, scrDate,
                   msgVars, renderVars>>

\* The terminal is resized; the Resize event reaches the dialog screen when it
\* is the mounted active screen: DatePickerDialogScreen.on_resize.
ScreenOnResize(size) ==
    /\ Running
    /\ size # appSize
    /\ appSize' = size
    /\ IF Top(stack) # MainScreen /\ scrMounted[Top(stack)]
       THEN /\ dlgOffset' = [dlgOffset EXCEPT ![Top(stack)] = CenterOffset(size)]
            /\ lastEvent' = Event("screen_resize", Top(stack), 0, 0, "")
       ELSE /\ UNCHANGED dlgOffset
            /\ lastEvent' = Event("app_resize", 0, 0, 0, "")
    /\ UNCHANGED <<stack, installed, appError, selVars, dlgTarget, dlgDisplay,
                   pickerTarget, pickerMonth, pickerDate, scrVars, msgVars, renderVars>>

\* DatePickerDialogScreen.on_click at screen position (x, y)
ScreenOnClick(d, x, y) ==
    /\ Running
    /\ Top(stack) = d
    /\ scrMounted[d]
    /\ IF ClickOutside(dlgOffset[d], x, y) THEN PopScreen ELSE UNCHANGED <<stack, appError>>
    /\ lastEvent' = Event("screen_click", d, x, y, "")
    /\ UNCHANGED <<appSize, installed, selVars, dlgVars, scrVars, msgVars, renderVars>>

\* BINDINGS: escape -> app.pop_screen(), bound while the screen is the active one
ScreenEscape(d) ==
    /\ Running
    /\ Top(stack) = d
    /\ scrMounted[d]
    /\ PopScreen
    /\ lastEvent' = Event("screen_escape", d, 0, 0, "")
    /\ UNCHANGED <<appSize, installed, selVars, dlgVars, scrVars, msgVars, renderVars>>

\* click positions tried: the viewport's corners and both sides of each edge
\* of the dialog's rectangle, as far as they lie in the viewport
ClickXs(d) == {x \in 0..(appSize[1] - 1) :
                 x \in {0, appSize[1] - 1, dlgOffset[d][1] - 1, dlgOffset[d][1],
                        dlgOffset[d][1] + DialogW - 1, dlgOffset[d][1] + DialogW}}
ClickYs(d) == {y \in 0..(appSize[2] - 1) :
                 y \in {0, appSize[2] - 1, dlgOffset[d][2] - 1, dlgOffset[d][2],
                        dlgOffset[d][2] + DialogH - 1, dlgOffset[d][2] + DialogH}}

Next ==
    \/ \E w \in Selects : SelectOnMount(w)
    \/ \E w \in Selects : SelectFocus(w)
    \/ \E w \in Selects, key \in Keys : SelectOnKey(w, key)
    \/ \E w \in Selects : SelectOnClick(w)
    \/ \E w \in Selects : SelectOnSelected(w)
    \/ \E d \in Selects, m \in Months : DialogCompose(d, m)
    \/ \E d \in Selects, nf \in 0..MaxDay : DialogOnDescendantBlur(d, nf)
    \/ \E d \in Selects : DialogOnSelected(d)
    \/ \E d \in Selects, dt \in Dates : PickerSelect(d, dt)
    \/ \E d \in Selects, dt \in Dates : ScreenSetDate(d, dt)
    \/ \E d \in Selects : ScreenOnMount(d)
    \/ \E size \in Sizes : ScreenOnResize(size)
    \/ \E d \in Selects : \E x \in ClickXs(d), y \in ClickYs(d) : ScreenOnClick(d, x, y)
    \/ \E d \in Selects : ScreenEscape(d)

Spec == Init /\ [][Next]_vars

\* ================================================================== claims
DialogScreens == Selects
OnStack(d) == \E i \in 1..Len(stack) : stack[i] = d
InsideDialog(off, x, y) ==
    /\ off[1] <= x /\ x < off[1] + DialogW
    /\ off[2] <= y /\ y < off[2] + DialogH
LayoutEvents == {"screen_mount", "screen_resize"}

\* C1: after the dialog screen handles mount or resize, the 30x17 dialog lies
\* within the terminal viewport: 0 <= offset.x, offset.x + 30 <= W,
\* 0 <= offset.y and offset.y + 17 <= H, for every terminal size (W, H).
C1_DialogWithinViewport ==
    lastEvent.type \in LayoutEvents =>
        LET off == dlgOffset[lastEvent.w]
        IN /\ 0 <= off[1] /\ off[1] + DialogW <= appSize[1]
           /\ 0 <= off[2] /\ off[2] + DialogH <= appSize[2]

C3_ClickPopsIffOutside ==
    lastEvent.type = "screen_click" =>
        (~OnStack(lastEvent.w)
            <=> ~InsideDialog(dlgOffset[lastEvent.w], lastEvent.x, lastEvent.y))

\* a click just right of the dialog's last column has removed the screen
C3_Witness ==
    /\ lastEvent.type = "screen_click"
    /\ lastEvent.x = dlgOffset[lastEvent.w][1] + DialogW
    /\ dlgOffset[lastEvent.w][2] <= lastEvent.y
    /\ lastEvent.y < dlgOffset[lastEvent.w][2] + DialogH
    /\ stack = <<MainScreen>>

\* C4: DateSelect.date starts as the constructor's date (None if none was
\* given) and changes only when the DateSelect handles a date-picker-selected
\* event, to that event's date and for that DateSelect alone; every other
\* handler leaves it unchanged.
C4_DateFollowsSelection ==
    /\ date = [w \in Selects |-> CtorDate(w)]
    /\ [][IF lastEvent'.type = "select_selected"
          THEN date' = [date EXCEPT ![lastEvent'.w] = Head(selInbox[lastEvent'.w])]
          ELSE date' = date]_vars

\* a DateSelect constructed without a date shows a selected date
C4_Witness ==
    /\ lastEvent.type = "select_selected"
    /\ CtorDate(lastEvent.w) = NoDate
    /\ date[lastEvent.w] \in Dates

\* C5: a mounted DateSelect opens the picker on, and only on, Enter or a click:
\* either shows its dialog and pushes the installed dialog screen on top of
\* the stack; another key changes neither the stack nor a display flag, and
\* nothing else pushes a screen.
C5_OpensOnEnterOrClick ==
    [][LET ev == lastEvent'
           opens == \/ ev.type = "select_click"
                    \/ ev.type = "select_key" /\ ev.key = "enter"
       IN /\ opens => /\ installed # NoDialog
                      /\ dlgDisplay'[selDialog[ev.w]]
                      /\ stack' = Append(stack, installed)
          /\ (ev.type = "select_key" /\ ev.key # "enter")
                => (stack' = stack /\ dlgDisplay' = dlgDisplay)
          /\ Len(stack') > Len(stack) => opens]_vars

\* Enter on the DateSelect has reopened a dialog that a selection had hidden
C5_Witness ==
    /\ lastEvent.type = "select_key"
    /\ lastEvent.key = "enter"
    /\ Top(stack) = installed
    /\ dlgDisplay[selDialog[lastEvent.w]]
    /\ date[lastEvent.w] # CtorDate(lastEvent.w)

\* C6: every dismissal (Escape, a click outside, a selected date) pops exactly
\* the dialog screen, leaving the stack as it was before the dialog was
\* opened, and no handler pops a screen while the dialog screen is not on top.
C6_DismissalPopsDialogScreen ==
    /\ appError # "ScreenStackError"
    /\ lastEvent.type \in {"screen_escape", "dialog_selected"} => stack = <<MainScreen>>
    /\ (/\ lastEvent.type = "screen_click"
        /\ ~InsideDialog(dlgOffset[lastEvent.w], lastEvent.x, lastEvent.y))
          => stack = <<MainScreen>>

\* C7: render returns the text (placeholder without a date, else the formatted
\* date) cut to max(w - 2, 0) characters and right-padded with spaces to
\* exactly that length, then one space and the chevron; the result is w
\* characters long whenever w >= 2 and the chevron is its last character.
C7_RenderLayout ==
    lastEvent.type = "select_render" =>
        LET w == lastEvent.w
            space == IF contentWidth >= 2 THEN contentWidth - 2 ELSE 0
            t == IF date[w] = NoDate THEN placeholder[w]
                 ELSE FormatDate(date[w], format[w])
        IN /\ Len(rendered) = space + 2
           /\ \A i \in 1..space :
                 rendered[i] = IF i <= Len(t) THEN t[i] ELSE " "
           /\ rendered[space + 1] = " "
           /\ rendered[Len(rendered)] = chevron
           /\ contentWidth >= 2 => Len(rendered) = contentWidth

\* a formatted date longer than the text space was rendered cut
C7_Witness ==
    /\ lastEvent.type = "select_render"
    /\ date[lastEvent.w] # NoDate
    /\ contentWidth > 2
    /\ Len(FormatDate(date[lastEvent.w], format[lastEvent.w])) > contentWidth - 2
    /\ Len(rendered) = contentWidth

\* C8: when the dialog screen has been mounted exactly one day label has the
\* focus: with a screen date, the first label with that date's day, the
\* picker's date being that date; without one the label marked today, or,
\* when there is none, the first day label, and no error has escaped.
C8_MountFocus ==
    lastEvent.type = "screen_mount" =>
        LET d == lastEvent.w
            labels == DayLabels(pickerMonth[d])
            f == focusDlg[d]
        IN /\ appError = "none"
           /\ f \in 1..Len(labels)
           /\ IF scrDate[d] # NoDate
              THEN /\ pickerDate[d] = scrDate[d]
                   /\ labels[f].day = scrDate[d].day
                   /\ \A i \in 1..(f - 1) : labels[i].day # scrDate[d].day
              ELSE IF \E i \in 1..Len(labels) : labels[i].today
                   THEN labels[f].today
                   ELSE f = 1

\* the screen was mounted without a date while the picker shows a month
\* without today's label: the first day label has the focus
C8_Witness ==
    /\ lastEvent.type = "screen_mount"
    /\ scrDate[lastEvent.w] = NoDate
    /\ pickerMonth[lastEvent.w] # Today.month
    /\ focusDlg[lastEvent.w] = 1

\* C9: whenever the dialog screen is on top of the screen stack, its dialog's
\* display flag is true.
C9_ScreenOnTopShowsDialog ==
    \A d \in DialogScreens : (Len(stack) > 1 /\ Top(stack) = d) => dlgDisplay[d]

\* C10: every DateSelect mount succeeds, and the screen a mounted DateSelect
\* pushes hosts that DateSelect's own dialog, whose target is that DateSelect.
C10_EachSelectHasItsOwnScreen ==
    /\ appError # "ScreenError"
    /\ \A w \in Selects :
          mounted[w] => (installed = selDialog[w] /\ dlgTarget[installed] = w)

====
